---------------------------- MODULE Spec2Model ----------------------------
(***************************************************************************)
(* Model of src/app.py: the in-memory invoice store INVOICES, the upload   *)
(* handler with the synthetic extractor fake_extract_invoice, the          *)
(* aggregation functions, the intent router polite_chat_response, the      *)
(* /ask handler and the external-model adapter call_llm.                   *)
(*                                                                         *)
(* Text is modelled as a sequence of one-character strings, so that        *)
(* lower(), strip() and the substring tests of the router are computed     *)
(* and not assumed.  Money is modelled in cents.  A date is a day ordinal  *)
(* (day 0 = 1 January of the first model year); its ISO form is text.      *)
(*                                                                         *)
(* Flask's development server (app.run, src/app.py:204) serves each        *)
(* request on its own thread, so the handlers are modelled as processes    *)
(* whose steps interleave at every access to the shared list INVOICES.     *)
(***************************************************************************)
EXTENDS Integers, Sequences, FiniteSets, TLC

\* ------------------------------------------------------------------ bounds

\* Largest number of records the store may hold in the model.
MaxStore == 3
\* Largest number of weeks the clock advances after process start.
MaxWeeks == 1
\* Largest number of `response` fragments one adapter call collects.
MaxChunks == 2

\* -------------------------------------------------------------------- text

Uppers == <<"A", "B", "C", "D", "E", "F", "G", "H", "I", "J", "K", "L",
            "M", "N", "O", "P", "Q", "R", "S", "T", "U", "V", "W", "X",
            "Y", "Z">>
Lowers == <<"a", "b", "c", "d", "e", "f", "g", "h", "i", "j", "k", "l",
            "m", "n", "o", "p", "q", "r", "s", "t", "u", "v", "w", "x",
            "y", "z">>

\* str.strip() with no argument removes these.
Whitespace == {" ", "\t", "\n", "\r", "\f"}

SetMin(S) == CHOOSE x \in S : \A y \in S : x <= y
SetMax(S) == CHOOSE x \in S : \A y \in S : x >= y

LowerOf == [c \in {Uppers[i] : i \in 1..Len(Uppers)} |->
               Lowers[CHOOSE i \in 1..Len(Uppers) : Uppers[i] = c]]

LowerChar(c) == IF c \in DOMAIN LowerOf THEN LowerOf[c] ELSE c

\* str.lower()
lower(s) == [i \in 1..Len(s) |-> LowerChar(s[i])]

\* str.strip()
strip(s) ==
    LET keep == {i \in 1..Len(s) : s[i] \notin Whitespace}
    IN  IF keep = {} THEN <<>> ELSE SubSeq(s, SetMin(keep), SetMax(keep))

\* Python's `sub in s` on strings.
Contains(s, sub) ==
    \E i \in 0..(Len(s) - Len(sub)) : \A j \in 1..Len(sub) : s[i + j] = sub[j]

RECURSIVE Concat(_)
\* "".join(parts)
Concat(parts) ==
    IF parts = <<>> THEN <<>> ELSE Head(parts) \o Concat(Tail(parts))

\* ----------------------------------------------------------- intent router

Greetings == {<<"h", "i">>, <<"h", "e", "l", "l", "o">>, <<"h", "e", "y">>}
HelpKeywords == {<<"w", "h", "a", "t", " ", "e", "l", "s", "e">>, <<"w", "h", "a", "t", " ", "c", "a", "n",
                                   " ", "y", "o", "u", " ", "d", "o">>, <<"h", "e", "l", "p">>,
                 <<"c", "a", "p", "a", "b", "i", "l", "i", "t", "i", "e",
                   "s">>, <<"f", "e", "a", "t", "u", "r", "e", "s">>}
KwTotalSpend == <<"t", "o", "t", "a", "l", " ", "s", "p", "e", "n", "d">>
KwTotalAmount == <<"t", "o", "t", "a", "l", " ", "a", "m", "o", "u", "n",
                   "t">>
KwNumberOf == <<"n", "u", "m", "b", "e", "r", " ", "o", "f", " ", "i", "n",
                "v", "o", "i", "c", "e", "s">>
KwHowMany == <<"h", "o", "w", " ", "m", "a", "n", "y", " ", "i", "n", "v",
               "o", "i", "c", "e", "s">>
KwTopVendor == <<"t", "o", "p", " ", "v", "e", "n", "d", "o", "r">>
KwDue == <<"d", "u", "e">>
KwWeek == <<"w", "e", "e", "k">>
KwInvoiceSummary == <<"i", "n", "v", "o", "i", "c", "e", " ", "s", "u",
                      "m", "m", "a", "r", "y">>

\* The branch of polite_chat_response that handles user_msg: the if-cascade
\* of lines 112-153, in the order of the code.
RouteWrongOrder(user_msg) ==
    LET user_lower == strip(lower(user_msg))
    IN  IF user_lower \in Greetings THEN "greeting"
        ELSE IF \E kw \in HelpKeywords : Contains(user_lower, kw) THEN "help"
        ELSE IF Contains(user_lower, KwTopVendor) THEN "top_vendor"
        ELSE IF Contains(user_lower, KwTotalSpend)
                \/ Contains(user_lower, KwTotalAmount) THEN "total_spend"
        ELSE IF Contains(user_lower, KwNumberOf)
                \/ Contains(user_lower, KwHowMany) THEN "count"
        ELSE IF (Contains(user_lower, KwDue) /\ Contains(user_lower, KwWeek))
                \/ Contains(user_lower, KwInvoiceSummary) THEN "summary"
        ELSE "llm"

Route(user_msg) ==
    LET user_lower == strip(lower(user_msg))
    IN  IF user_lower \in Greetings THEN "greeting"
        ELSE IF \E kw \in HelpKeywords : Contains(user_lower, kw) THEN "help"
        ELSE IF Contains(user_lower, KwTotalSpend)
                \/ Contains(user_lower, KwTotalAmount) THEN "total_spend"
        ELSE IF Contains(user_lower, KwNumberOf)
                \/ Contains(user_lower, KwHowMany) THEN "count"
        ELSE IF Contains(user_lower, KwTopVendor) THEN "top_vendor"
        ELSE IF (Contains(user_lower, KwDue) /\ Contains(user_lower, KwWeek))
                \/ Contains(user_lower, KwInvoiceSummary) THEN "summary"
        ELSE "llm"

\* ------------------------------------------------------ numbers and dates

Digits == <<"0", "1", "2", "3", "4", "5", "6", "7", "8", "9">>

RECURSIVE IntStr(_)
\* str(n) for a natural number n
IntStr(n) == IF n < 10 THEN <<Digits[n + 1]>>
             ELSE IntStr(n \div 10) \o <<Digits[(n % 10) + 1]>>

RECURSIVE ZeroPad(_, _)
\* the width-w zero padding of format specs such as 03d, 02d, 04d
ZeroPad(s, w) == IF Len(s) >= w THEN s ELSE ZeroPad(<<"0">> \o s, w)

\* f"{cents/100:.2f}"
Fmt2f(cents) == IntStr(cents \div 100) \o <<".">> \o ZeroPad(IntStr(cents % 100), 2)

\* str(x) of a float with at most two decimals: the shortest form, which
\* keeps one decimal at least ("250.0", "100.5", "123.45").
StrFloat(cents) ==
    IntStr(cents \div 100) \o <<".">> \o
    (IF cents % 10 = 0 THEN IntStr((cents % 100) \div 10)
     ELSE ZeroPad(IntStr(cents % 100), 2))

IsDigit(c) == \E i \in 1..10 : Digits[i] = c
DigitVal(c) == (CHOOSE i \in 1..10 : Digits[i] = c) - 1

RECURSIVE StrInt(_)
\* int(s) for a string of digits
StrInt(s) == IF s = <<>> THEN 0
             ELSE 10 * StrInt(SubSeq(s, 1, Len(s) - 1)) + DigitVal(s[Len(s)])

\* The day the process starts; every date of a run lies in its year or the
\* next, and the model's years have 365 days.
StartDate == <<"2", "0", "2", "5", "-", "1", "2", "-", "2", "0">>
FirstYear == StrInt(SubSeq(StartDate, 1, 4))
DaysInMonth == <<31, 28, 31, 30, 31, 30, 31, 31, 30, 31, 30, 31>>

RECURSIVE DaysBefore(_)
\* days of the year before month m
DaysBefore(m) == IF m = 1 THEN 0 ELSE DaysBefore(m - 1) + DaysInMonth[m - 1]

\* datetime.date.isoformat(): "YYYY-MM-DD"
isoformat(ord) ==
    LET doy == ord % 365
        m   == CHOOSE k \in 1..12 :
                   DaysBefore(k) <= doy /\ doy < DaysBefore(k) + DaysInMonth[k]
    IN  ZeroPad(IntStr(FirstYear + (ord \div 365)), 4) \o <<"-">> \o
        ZeroPad(IntStr(m), 2) \o <<"-">> \o
        ZeroPad(IntStr(doy - DaysBefore(m) + 1), 2)

\* Whether datetime.date.fromisoformat(s) returns: s is "YYYY-MM-DD" and names
\* a day of the calendar.  Otherwise it raises ValueError.
IsIsoDate(s) ==
    /\ Len(s) = 10
    /\ s[5] = "-" /\ s[8] = "-"
    /\ \A i \in {1, 2, 3, 4, 6, 7, 9, 10} : IsDigit(s[i])
    /\ StrInt(SubSeq(s, 1, 4)) >= 1
    /\ StrInt(SubSeq(s, 6, 7)) \in 1..12
    /\ StrInt(SubSeq(s, 9, 10)) \in 1..DaysInMonth[StrInt(SubSeq(s, 6, 7))]

\* datetime.date.fromisoformat(s), as a day ordinal, where IsIsoDate(s)
fromisoformat(s) ==
    (StrInt(SubSeq(s, 1, 4)) - FirstYear) * 365
    + DaysBefore(StrInt(SubSeq(s, 6, 7))) + StrInt(SubSeq(s, 9, 10)) - 1

\* ------------------------------------------------------------ aggregations

\* sum(float(inv["total"]) for inv in INVOICES), in cents
RECURSIVE total_spent(_)
total_spent(invs) ==
    IF invs = <<>> THEN 0 ELSE Head(invs).total + total_spent(Tail(invs))

\* len(INVOICES)
invoice_count(invs) == Len(invs)

\* The comparison of line 60.
DueByStrict(d, cutoff) == d < cutoff
DueBy(d, cutoff) == d <= cutoff

\* The records the loop of lines 57-63 keeps: a due date that does not parse
\* raises in fromisoformat and the record is skipped.
list_due_within(invs, now, days) ==
    LET cutoff == now + days
    IN  SelectSeq(invs, LAMBDA inv :
            /\ IsIsoDate(inv.due_date)
            /\ DueBy(fromisoformat(inv.due_date), cutoff))

\* The dict `tally` of lines 69-72 as the sequence of its (key, value) pairs
\* in insertion order, which is the order a Python dict iterates in.
RECURSIVE Tally(_, _)
Tally(invs, acc) ==
    IF invs = <<>> THEN acc
    ELSE LET inv == Head(invs)
             at  == {i \in 1..Len(acc) : acc[i].vendor = inv.vendor}
         IN  IF at = {}
             THEN Tally(Tail(invs),
                        Append(acc, [vendor |-> inv.vendor, sum |-> inv.total]))
             ELSE Tally(Tail(invs),
                        [acc EXCEPT ![SetMin(at)].sum = @ + inv.total])

\* max(tally, key=tally.get): the first key, in iteration order, whose value
\* no other key's value exceeds.
MaxKeyLast(tally) ==
    tally[SetMax({i \in 1..Len(tally) :
                     \A j \in 1..Len(tally) : tally[j].sum <= tally[i].sum})]
MaxKey(tally) ==
    tally[SetMin({i \in 1..Len(tally) :
                     \A j \in 1..Len(tally) : tally[j].sum <= tally[i].sum})]

\* None, as a vendor: like "", which no record has, it is false in `if vendor`.
None == <<>>

\* compute_top_vendor(): (vendor, total)
compute_top_vendor(invs) ==
    IF invs = <<>> THEN [vendor |-> None, sum |-> 0]
    ELSE MaxKey(Tally(invs, <<>>))

\* ------------------------------------------------------------- answer texts

GreetingText ==
    <<"H", "i", "!", " ", "I", " ", "c", "a", "n", " ", "h", "e", "l", "p",
      " ", "y", "o", "u", " ", "c", "h", "e", "c", "k", " ", "i", "n", "v",
      "o", "i", "c", "e", "s", ",", " ", "s", "h", "o", "w", " ", "d", "u",
      "e", " ", "p", "a", "y", "m", "e", "n", "t", "s", ",", " ", "o", "r",
      " ", "s", "u", "m", "m", "a", "r", "i", "z", "e", " ", "i", "n", "v",
      "o", "i", "c", "e", " ", "i", "n", "f", "o", ".">>
HelpText ==
    <<"I", " ", "c", "a", "n", " ", "h", "e", "l", "p", " ", "y", "o", "u",
      ":", "\n", "-", " ", "S", "h", "o", "w", " ", "i", "n", "v", "o",
      "i", "c", "e", "s", " ", "d", "u", "e", " ", "t", "h", "i", "s", " ",
      "w", "e", "e", "k", "\n", "-", " ", "S", "u", "m", "m", "a", "r",
      "i", "z", "e", " ", "i", "n", "v", "o", "i", "c", "e", "s", "\n",
      "-", " ", "T", "e", "l", "l", " ", "y", "o", "u", " ", "t", "h", "e",
      " ", "t", "o", "p", " ", "v", "e", "n", "d", "o", "r", " ", "b", "y",
      " ", "s", "p", "e", "n", "d", "\n", "-", " ", "A", "n", "s", "w",
      "e", "r", " ", "b", "a", "s", "i", "c", " ", "f", "i", "n", "a", "n",
      "c", "e", " ", "q", "u", "e", "s", "t", "i", "o", "n", "s", " ", "l",
      "i", "k", "e", " ", "t", "o", "t", "a", "l", " ", "s", "p", "e", "n",
      "d", ",", " ", "n", "u", "m", "b", "e", "r", " ", "o", "f", " ", "i",
      "n", "v", "o", "i", "c", "e", "s", ",", " ", "e", "t", "c", ".">>
NoInvoicesText == <<"N", "o", " ", "i", "n", "v", "o", "i", "c", "e", "s",
                    " ", "u", "p", "l", "o", "a", "d", "e", "d", " ", "y",
                    "e", "t", ".">>
NothingDueText == <<"N", "o", " ", "i", "n", "v", "o", "i", "c", "e", "s",
                    " ", "a", "r", "e", " ", "d", "u", "e", " ", "i", "n",
                    " ", "t", "h", "e", " ", "n", "e", "x", "t", " ", "7",
                    " ", "d", "a", "y", "s", ".">>
SummaryHeader == <<"H", "e", "r", "e", "'", "s", " ", "a", " ", "s", "u",
                   "m", "m", "a", "r", "y", " ", "o", "f", " ", "i", "n",
                   "v", "o", "i", "c", "e", "s", " ", "d", "u", "e", " ",
                   "t", "h", "i", "s", " ", "w", "e", "e", "k", ":", "\n">>

TotalSpendText(invs) ==
    <<"T", "h", "e", " ", "t", "o", "t", "a", "l", " ", "s", "p", "e", "n",
      "d", " ", "a", "c", "r", "o", "s", "s", " ", "a", "l", "l", " ", "i",
      "n", "v", "o", "i", "c", "e", "s", " ", "i", "s", " ", "$">> \o Fmt2f(total_spent(invs)) \o <<
                                                                                   ".">>

CountText(invs) ==
    <<"T", "h", "e", "r", "e", " ", "a", "r", "e", " ">> \o IntStr(invoice_count(invs)) \o <<" ", "i", "n", "v",
                                                        "o", "i", "c", "e",
                                                        "s", " ", "u", "p",
                                                        "l", "o", "a", "d",
                                                        "e", "d", " ", "s",
                                                        "o", " ", "f", "a",
                                                        "r", ".">>

TopVendorText(invs) ==
    LET top == compute_top_vendor(invs)
    IN  IF top.vendor # None
        THEN <<"T", "o", "p", " ", "v", "e", "n", "d", "o", "r", " ", "b",
               "y", " ", "s", "p", "e", "n", "d", " ", "i", "s", " ">> \o top.vendor \o <<" ", "w", "i",
                                                             "t", "h", " ",
                                                             "a", " ", "t",
                                                             "o", "t", "a",
                                                             "l", " ", "o",
                                                             "f", " ", "$">>
             \o Fmt2f(top.sum) \o <<".">>
        ELSE NoInvoicesText

SummaryLine(i) ==
    <<"-", " ">> \o i.vendor \o <<":", " ">> \o StrFloat(i.total) \o <<" ">> \o i.currency
    \o <<" ", "d", "u", "e", " ">> \o i.due_date \o <<" ", "(">> \o i.invoice_no \o <<")">>

\* The loop of lines 142-148: one line per (vendor, invoice_no) key not seen
\* before.
RECURSIVE SummaryLines(_, _)
SummaryLines(due, seen) ==
    IF due = <<>> THEN <<>>
    ELSE LET i   == Head(due)
             key == <<i.vendor, i.invoice_no>>
         IN  IF key \notin seen
             THEN <<SummaryLine(i)>> \o SummaryLines(Tail(due), seen \cup {key})
             ELSE SummaryLines(Tail(due), seen)

RECURSIVE JoinLines(_)
\* "\n".join(lines)
JoinLines(lines) ==
    IF lines = <<>> THEN <<>>
    ELSE IF Len(lines) = 1 THEN Head(lines)
    ELSE Head(lines) \o <<"\n">> \o JoinLines(Tail(lines))

\* The window of the call list_due_within(7), line 140.
DueWindowDays == 7

SummaryText(invs, now) ==
    LET due == list_due_within(invs, now, DueWindowDays)
    IN  IF due # <<>>
        THEN SummaryHeader \o JoinLines(SummaryLines(due, {}))
        ELSE NothingDueText

\* The answer of line 158, from the value invoice_count() returned and the
\* value total_spent() returned.
FallbackText(count, spend) ==
    <<"I", "'", "m", " ", "n", "o", "t", " ", "c", "o", "n", "n", "e", "c",
      "t", "e", "d", " ", "t", "o", " ", "t", "h", "e", " ", "L", "L", "M",
      " ", "r", "i", "g", "h", "t", " ", "n", "o", "w", ".", " ", "B", "a",
      "s", "e", "d", " ", "o", "n", " ", "u", "p", "l", "o", "a", "d", "e",
      "d", " ", "i", "n", "v", "o", "i", "c", "e", "s", ":", "\n", "-",
      " ", "T", "o", "t", "a", "l", " ", "i", "n", "v", "o", "i", "c", "e",
      "s", ":", " ">>
    \o IntStr(count) \o <<"\n", "-", " ", "T", "o", "t", "a", "l", " ",
                          "s", "p", "e", "n", "d", ":", " ", "$">> \o Fmt2f(spend)

\* The answer of a branch that does not call the adapter, lines 114-151.
LocalAnswer(route, invs, now) ==
    CASE route = "greeting"    -> GreetingText
      [] route = "help"        -> HelpText
      [] route = "total_spend" -> TotalSpendText(invs)
      [] route = "count"       -> CountText(invs)
      [] route = "top_vendor"  -> TopVendorText(invs)
      [] route = "summary"     -> SummaryText(invs, now)

\* ------------------------------------------------------------------ upload

\* werkzeug's secure_filename, for ASCII names: path separators become
\* spaces, runs of whitespace become one "_", characters outside
\* [A-Za-z0-9_.-] are dropped, and leading and trailing "." and "_" are
\* stripped.
FilenameChars ==
    {Uppers[i] : i \in 1..26} \cup {Lowers[i] : i \in 1..26}
    \cup {Digits[i] : i \in 1..10} \cup {"_", ".", "-"}

RECURSIVE JoinWords(_, _)
\* "_".join(s.split()): at_start says that no word has been written yet
JoinWords(s, at_start) ==
    IF s = <<>> THEN <<>>
    ELSE IF Head(s) \in Whitespace THEN JoinWords(Tail(s), at_start)
    ELSE LET sep == IF at_start THEN <<>> ELSE <<"_">>
             n   == IF \E i \in 1..Len(s) : s[i] \in Whitespace
                    THEN SetMin({i \in 1..Len(s) : s[i] \in Whitespace}) - 1
                    ELSE Len(s)
         IN  sep \o SubSeq(s, 1, n) \o JoinWords(SubSeq(s, n + 1, Len(s)), FALSE)

StripDots(s) ==
    LET keep == {i \in 1..Len(s) : s[i] \notin {".", "_"}}
    IN  IF keep = {} THEN <<>> ELSE SubSeq(s, SetMin(keep), SetMax(keep))

secure_filename(filename) ==
    LET spaced == [i \in 1..Len(filename) |->
                      IF filename[i] \in {"/", "\\"} THEN " " ELSE filename[i]]
        joined == JoinWords(spaced, TRUE)
    IN  StripDots(SelectSeq(joined, LAMBDA c : c \in FilenameChars))

\* f"INV-{n:03d}"
InvoiceNo(n) == <<"I", "N", "V", "-">> \o ZeroPad(IntStr(n), 3)

\* f"Vendor {k}"
VendorName(k) == <<"V", "e", "n", "d", "o", "r", " ">> \o IntStr(k)

\* Line 84: the records of the store with this file name.
Existing(invs, original_name) ==
    SelectSeq(invs, LAMBDA inv : inv.file_name = original_name)

\* Line 86, from len(existing) and len(INVOICES).
invoice_no(n_existing, n_invoices) ==
    IF n_existing = 0 THEN InvoiceNo(n_invoices + 1)
    ELSE InvoiceNo(n_existing + 1)

\* The fields of the record of lines 88-105 that a handler reads afterwards.
\* (id, storage_path, issue_date, line_items, subtotal, tax and status are
\* written and never read.)
fake_extract_invoice(original_name, number, now, offset, cents, k) ==
    [file_name  |-> original_name,
     vendor     |-> VendorName(k),
     invoice_no |-> number,
     due_date   |-> isoformat(now + offset),
     currency   |-> <<"U", "S", "D">>,
     total      |-> cents]

\* ------------------------------------------------------------------- state

Uploaders == {"u1", "u2"}
Askers == {"a1"}

VARIABLES
    INVOICES,   \* the list INVOICES, line 18
    today,      \* datetime.date.today(), as a day ordinal
    uploads,    \* per upload request thread: its position and locals
    asks,       \* per question request thread: its position and locals
    llm,        \* per question request thread: the call_llm frame and its stream
    accepted    \* number of uploads answered with ok: true

vars == <<INVOICES, today, uploads, asks, llm, accepted>>

NoResponse == [status |-> 0, error |-> <<>>, answer |-> <<>>]
MissingQuestion == [status |-> 400, error |-> <<"M", "i", "s", "s", "i",
                                                "n", "g", " ", "'", "q",
                                                "u", "e", "s", "t", "i",
                                                "o", "n", "'">>, answer |-> <<>>]
ServerError == [status |-> 500, error |-> <<"I", "n", "t", "e", "r", "n",
                                            "a", "l", " ", "S", "e", "r",
                                            "v", "e", "r", " ", "E", "r",
                                            "r", "o", "r">>, answer |-> <<>>]
Answer(text) == [status |-> 200, error |-> <<>>, answer |-> text]

IdleUpload == [pc |-> "idle", fname |-> <<>>, now |-> 0, existing |-> 0,
               number |-> <<>>, resp |-> "none"]
\* q is the stripped question, branch the branch of polite_chat_response
\* taken, count the value invoice_count() returned.  started, ended and on
\* record, for the properties only, the length of the store when the request
\* arrived and when it was answered, and the day it arrived on.
IdleAsk == [pc |-> "idle", q |-> <<>>, branch |-> "none", count |-> 0,
            started |-> 0, ended |-> 0, on |-> 0, resp |-> NoResponse]
IdleLlm == [prompt |-> <<>>, pending |-> FALSE, out |-> <<>>,
            outcome |-> "none", value |-> <<>>]

Init ==
    /\ INVOICES = <<>>
    /\ today = fromisoformat(StartDate)
    /\ uploads = [u \in Uploaders |-> IdleUpload]
    /\ asks = [a \in Askers |-> IdleAsk]
    /\ llm = [a \in Askers |-> IdleLlm]
    /\ accepted = 0

\* The clock: a week passes.
Tick ==
    /\ today < fromisoformat(StartDate) + 7 * MaxWeeks
    /\ today' = today + 7
    /\ UNCHANGED <<INVOICES, uploads, asks, llm, accepted>>

\* Uploads that have passed the checks of lines 174-178 and not yet appended.
InFlight == Cardinality({u \in Uploaders : uploads[u].pc # "idle"})

\* upload(), lines 174-178: the request has no file part ("no_file") or its
\* file has an empty name ("no_name"): 400, and nothing else happens.
UploadReject(u, why) ==
    /\ uploads[u].pc = "idle"
    /\ uploads' = [uploads EXCEPT ![u] = [IdleUpload EXCEPT !.resp = why]]
    /\ UNCHANGED <<INVOICES, today, asks, llm, accepted>>

\* upload(), lines 176-184, and fake_extract_invoice, lines 78-84: the name
\* is sanitised, the file saved, today read and the records sharing the file
\* name collected.
UploadSave(u, filename) ==
    /\ uploads[u].pc = "idle"
    /\ filename # <<>>
    /\ Len(INVOICES) + InFlight < MaxStore
    /\ LET fname == secure_filename(filename)
       IN  uploads' = [uploads EXCEPT ![u] =
               [pc |-> "extract", fname |-> fname, now |-> today,
                existing |-> Len(Existing(INVOICES, fname)),
                number |-> <<>>, resp |-> "none"]]
    /\ UNCHANGED <<INVOICES, today, asks, llm, accepted>>

\* fake_extract_invoice, lines 85-86: len(INVOICES) is read and the invoice
\* number chosen.
UploadNumber(u) ==
    /\ uploads[u].pc = "extract"
    /\ uploads' = [uploads EXCEPT ![u].pc = "append",
                                  ![u].number = invoice_no(uploads[u].existing,
                                                           Len(INVOICES))]
    /\ UNCHANGED <<INVOICES, today, asks, llm, accepted>>

\* A store that keeps the latest record only.
UploadAppendReplaces(u, offset, cents, k) ==
    /\ uploads[u].pc = "append"
    /\ INVOICES' = <<fake_extract_invoice(uploads[u].fname, uploads[u].number,
                                          uploads[u].now, offset, cents, k)>>
    /\ uploads' = [uploads EXCEPT ![u] = [IdleUpload EXCEPT !.resp = "ok"]]
    /\ accepted' = accepted + 1
    /\ UNCHANGED <<today, asks, llm>>

\* Lines 88-105 and 187-190: the record is built and appended, and the
\* upload answered.  The random draws of lines 79, 80 and 92 read no shared
\* state, so they are made in the step that publishes the record.
UploadAppend(u, offset, cents, k) ==
    /\ uploads[u].pc = "append"
    /\ INVOICES' = Append(INVOICES,
           fake_extract_invoice(uploads[u].fname, uploads[u].number,
                                uploads[u].now, offset, cents, k))
    /\ uploads' = [uploads EXCEPT ![u] = [IdleUpload EXCEPT !.resp = "ok"]]
    /\ accepted' = accepted + 1
    /\ UNCHANGED <<today, asks, llm>>

\* ----------------------------------------------------------------- /ask

\* ask(), lines 194-200, and polite_chat_response up to the call of line
\* 154.  body.has says whether the JSON body has a "question"; a branch that
\* answers locally reads the store in this step.
ask(a, body) ==
    /\ asks[a].pc = "idle"
    /\ LET q     == strip(IF body.has THEN body.question ELSE <<>>)
           route == Route(q)
       IN  IF q = <<>>
           THEN /\ asks' = [asks EXCEPT ![a] =
                       [IdleAsk EXCEPT !.resp = MissingQuestion]]
                /\ llm' = [llm EXCEPT ![a] = IdleLlm]
           ELSE IF route # "llm"
           THEN /\ asks' = [asks EXCEPT ![a] =
                       [IdleAsk EXCEPT !.q = q, !.branch = route,
                            !.started = Len(INVOICES), !.ended = Len(INVOICES),
                            !.on = today,
                            !.resp = Answer(LocalAnswer(route, INVOICES, today))]]
                /\ llm' = [llm EXCEPT ![a] = IdleLlm]
           ELSE /\ asks' = [asks EXCEPT ![a] =
                       [IdleAsk EXCEPT !.pc = "post", !.q = q, !.branch = "llm",
                            !.started = Len(INVOICES), !.on = today]]
                /\ llm' = [llm EXCEPT ![a] = [IdleLlm EXCEPT !.prompt = q]]
    /\ UNCHANGED <<INVOICES, today, uploads, accepted>>

\* call_llm, lines 26-30: requests.post or raise_for_status raises a
\* RequestException (no connection, no answer within the timeout, an error
\* status), and call_llm returns "".
LlmPostFails(a) ==
    /\ asks[a].pc = "post"
    /\ llm' = [llm EXCEPT ![a].outcome = "returned", ![a].value = <<>>]
    /\ asks' = [asks EXCEPT ![a].pc = "count"]
    /\ UNCHANGED <<INVOICES, today, uploads, accepted>>

\* call_llm, lines 26-32: the backend answers with a success status and the
\* body is left to be streamed.
LlmPostOk(a) ==
    /\ asks[a].pc = "post"
    /\ asks' = [asks EXCEPT ![a].pc = "stream"]
    /\ UNCHANGED <<INVOICES, today, uploads, llm, accepted>>

\* The backend: one more line of the body arrives.
BackendSendsLine(a) ==
    /\ asks[a].pc = "stream"
    /\ ~llm[a].pending
    /\ llm' = [llm EXCEPT ![a].pending = TRUE]
    /\ UNCHANGED <<INVOICES, today, uploads, asks, accepted>>

\* What line 38 appends for a line that parses as a JSON object:
\* data.get("response", "").
Fragment(line) ==
    IF line.key THEN [str |-> line.str, text |-> line.text]
    ELSE [str |-> TRUE, text |-> <<>>]

\* One turn of the loop of lines 33-40 on the line that arrived: an empty
\* line is skipped; a line that does not parse ("garbage") or parses as
\* something else than an object ("nonobject") raises inside the try and is
\* passed over; an object appends its `response`.
LoopBody(out, line) ==
    IF line.kind = "object" THEN Append(out, Fragment(line)) ELSE out

LlmReadsLine(a, line) ==
    /\ asks[a].pc = "stream"
    /\ llm[a].pending
    /\ line.kind = "object" => Len(llm[a].out) < MaxChunks
    /\ llm' = [llm EXCEPT ![a].pending = FALSE,
                          ![a].out = LoopBody(llm[a].out, line)]
    /\ UNCHANGED <<INVOICES, today, uploads, asks, accepted>>

\* "".join(out).strip(), line 41: join raises TypeError when an element of
\* out is not a string.
JoinRaises(out) == \E i \in 1..Len(out) : ~out[i].str
Joined(out) == strip(Concat([i \in 1..Len(out) |-> out[i].text]))

\* The body ends and the loop of line 33 with it.  call_llm returns the
\* joined text, or raises from line 41, outside its try.  Lines 155-156:
\* a text that is not empty is the answer.
LlmStreamEnds(a) ==
    /\ asks[a].pc = "stream"
    /\ ~llm[a].pending
    /\ IF JoinRaises(llm[a].out)
       THEN /\ llm' = [llm EXCEPT ![a].outcome = "raised"]
            /\ asks' = [asks EXCEPT ![a].pc = "idle", ![a].resp = ServerError,
                                    ![a].ended = Len(INVOICES)]
       ELSE /\ llm' = [llm EXCEPT ![a].outcome = "returned",
                                  ![a].value = Joined(llm[a].out)]
            /\ IF Joined(llm[a].out) # <<>>
               THEN asks' = [asks EXCEPT ![a].pc = "idle",
                                 ![a].ended = Len(INVOICES),
                                 ![a].resp = Answer(Joined(llm[a].out))]
               ELSE asks' = [asks EXCEPT ![a].pc = "count"]
    /\ UNCHANGED <<INVOICES, today, uploads, accepted>>

\* The connection breaks, or no byte arrives within the read timeout, while
\* the body is streamed: iter_lines (line 33) raises, outside the try of
\* lines 25-30, and neither call_llm nor its callers catch it.
LlmStreamBreaks(a) ==
    /\ asks[a].pc = "stream"
    /\ ~llm[a].pending
    /\ llm' = [llm EXCEPT ![a].outcome = "raised"]
    /\ asks' = [asks EXCEPT ![a].pc = "idle", ![a].resp = ServerError,
                            ![a].ended = Len(INVOICES)]
    /\ UNCHANGED <<INVOICES, today, uploads, accepted>>

\* Line 158, first half: invoice_count() is called.
AskCount(a) ==
    /\ asks[a].pc = "count"
    /\ asks' = [asks EXCEPT ![a].pc = "total",
                            ![a].count = invoice_count(INVOICES)]
    /\ UNCHANGED <<INVOICES, today, uploads, llm, accepted>>

\* Line 158, second half: total_spent() is called and the answer returned.
AskTotal(a) ==
    /\ asks[a].pc = "total"
    /\ asks' = [asks EXCEPT ![a].pc = "idle", ![a].ended = Len(INVOICES),
                    ![a].resp = Answer(FallbackText(asks[a].count,
                                                    total_spent(INVOICES)))]
    /\ UNCHANGED <<INVOICES, today, uploads, llm, accepted>>

\* ------------------------------------------------------------------ inputs

\* File names as the client sends them.
FileNames == {<<"a", ".", "p", "d", "f">>, <<"b", ".", "p", "d", "f">>, <<".", ".", "/", "a", ".", "p", "d",
                                        "f">>}

\* The random draws of one upload: the due-date offset of line 79
\* (random.randint(3, 14)), the total of line 80 in cents
\* (round(random.uniform(100, 1000), 2)) and the vendor number of line 92
\* (random.randint(1, 5)).
Draw(offset, cents, k) == [offset |-> offset, cents |-> cents, k |-> k]
OneDraw == {Draw(3, 10000, 1)}
\* Draws that tell vendors and their sums apart.
VendorDraws == {Draw(3, 10050, 1), Draw(3, 10050, 2), Draw(3, 20100, 2),
                Draw(3, 20100, 3)}
\* Draws that tell due dates and (vendor, invoice number) pairs apart.
DueDraws == {Draw(3, 10050, 1), Draw(3, 10050, 2), Draw(14, 20100, 2)}

Question(text) == [has |-> TRUE, question |-> text]
NoQuestion == [has |-> FALSE, question |-> <<>>]

Bodies ==
    {NoQuestion, Question(<<" ", " ">>), Question(<<"T", "o", "p", " ", "v",
                                               "e", "n", "d", "o", "r", "?">>),
     Question(<<"b", "u", "d", "g", "e", "t", "?">>)}

Line(kind) == [kind |-> kind, key |-> FALSE, str |-> TRUE, text |-> <<>>]
Chunk(text) == [kind |-> "object", key |-> TRUE, str |-> TRUE, text |-> text]
\* {"response": null}
NullChunk == [kind |-> "object", key |-> TRUE, str |-> FALSE, text |-> <<>>]

Lines ==
    {Line("empty"), Line("garbage"), Line("nonobject"), Line("object"),
     Chunk(<<" ", "o", "k">>), NullChunk}

\* ---------------------------------------------------------- specifications

\* No request is being handled.
Quiet ==
    /\ \A u \in Uploaders : uploads[u].pc = "idle"
    /\ \A a \in Askers : asks[a].pc = "idle"

\* Requests served concurrently, each on its own thread.
Next ==
    \/ \E u \in Uploaders, why \in {"no_file", "no_name"} : UploadReject(u, why)
    \/ \E u \in Uploaders, f \in FileNames : UploadSave(u, f)
    \/ \E u \in Uploaders : UploadNumber(u)
    \/ \E u \in Uploaders, d \in OneDraw : UploadAppend(u, d.offset, d.cents, d.k)
    \/ \E a \in Askers, b \in Bodies : ask(a, b)
    \/ \E a \in Askers : LlmPostFails(a)
    \/ \E a \in Askers : LlmPostOk(a)
    \/ \E a \in Askers : BackendSendsLine(a)
    \/ \E a \in Askers, l \in Lines : LlmReadsLine(a, l)
    \/ \E a \in Askers : LlmStreamEnds(a)
    \/ \E a \in Askers : LlmStreamBreaks(a)
    \/ \E a \in Askers : AskCount(a)
    \/ \E a \in Askers : AskTotal(a)

Spec == Init /\ [][Next]_vars

\* Requests served one after the other: uploads that differ in vendor and
\* total, and the question for the top vendor.
TopVendorNext ==
    \/ Quiet /\ UploadSave("u1", <<"a", ".", "p", "d", "f">>)
    \/ UploadNumber("u1")
    \/ \E d \in VendorDraws : UploadAppend("u1", d.offset, d.cents, d.k)
    \/ Quiet /\ ask("a1", Question(<<"W", "h", "o", " ", "i", "s", " ",
                                     "o", "u", "r", " ", "t", "o", "p",
                                     " ", "v", "e", "n", "d", "o", "r", "?">>))

TopVendorSpec == Init /\ [][TopVendorNext]_vars

\* Requests served one after the other, over the weeks: uploads that differ
\* in file name, vendor and due date, and the question for what is due.
DueNext ==
    \/ Tick
    \/ Quiet /\ \E f \in {<<"a", ".", "p", "d", "f">>, <<"b", ".", "p", "d", "f">>} : UploadSave("u1", f)
    \/ UploadNumber("u1")
    \/ \E d \in DueDraws : UploadAppend("u1", d.offset, d.cents, d.k)
    \/ Quiet /\ ask("a1", Question(<<"W", "h", "a", "t", " ", "i", "s",
                                     " ", "d", "u", "e", " ", "t", "h",
                                     "i", "s", " ", "w", "e", "e", "k", "?">>))

DueSpec == Init /\ [][DueNext]_vars

\* The pieces the sampled questions of the router are built from.
Frags ==
    {<<"h", "i">>, <<"H", "e", "l", "l", "o">>, <<"H", "E", "Y">>, <<" ">>, <<"h", "e", "l", "p">>, <<"W", "h", "a",
                                                         "t", " ", "E",
                                                         "l", "s", "e">>,
     <<"w", "h", "a", "t", " ", "c", "a", "n", " ", "y", "o", "u", " ",
       "d", "o">>, <<"c", "a", "p", "a", "b", "i", "l", "i", "t",
                             "i", "e", "s">>, <<"f", "e", "a", "t", "u",
                                                "r", "e", "s">>, <<"t", "o",
                                                               "t", "a",
                                                               "l", " ",
                                                               "s", "p",
                                                               "e", "n", "d">>,
     <<"T", "o", "t", "a", "l", " ", "A", "m", "o", "u", "n", "t">>, <<"n", "u", "m", "b", "e", "r", " ", "o", "f", " ",
                          "i", "n", "v", "o", "i", "c", "e", "s">>, <<"H", "o", "w", " ", "m",
                                                   "a", "n", "y", " ", "i",
                                                   "n", "v", "o", "i", "c",
                                                   "e", "s">>,
     <<"t", "o", "p", " ", "v", "e", "n", "d", "o", "r">>, <<"d", "u", "e">>, <<"w", "e", "e", "k">>, <<"i", "n", "v", "o", "i", "c",
                                             "e", " ", "s", "u", "m", "m",
                                             "a", "r", "y">>}

\* Every question made of at most two pieces.
RouterBodies ==
    {Question(f \o g) : f, g \in Frags \cup {<<>>}}

\* Requests served one after the other, with every sampled question.
RouterNext ==
    \/ Quiet /\ UploadSave("u1", <<"a", ".", "p", "d", "f">>)
    \/ UploadNumber("u1")
    \/ \E d \in OneDraw : UploadAppend("u1", d.offset, d.cents, d.k)
    \/ Quiet /\ \E b \in RouterBodies : ask("a1", b)
    \/ LlmPostFails("a1")
    \/ AskCount("a1")
    \/ AskTotal("a1")

RouterSpec == Init /\ [][RouterNext]_vars

\* Questions against a backend that may do anything, while records are
\* uploaded.
LiveNext ==
    \/ \E f \in FileNames : UploadSave("u1", f)
    \/ UploadNumber("u1")
    \/ \E d \in OneDraw : UploadAppend("u1", d.offset, d.cents, d.k)
    \/ \E a \in Askers, b \in Bodies : ask(a, b)
    \/ \E a \in Askers : LlmPostFails(a)
    \/ \E a \in Askers : LlmPostOk(a)
    \/ \E a \in Askers : BackendSendsLine(a)
    \/ \E a \in Askers, l \in Lines : LlmReadsLine(a, l)
    \/ \E a \in Askers : LlmStreamEnds(a)
    \/ \E a \in Askers : LlmStreamBreaks(a)
    \/ \E a \in Askers : AskCount(a)
    \/ \E a \in Askers : AskTotal(a)

\* What the request thread and the timeout of line 26 guarantee: a thread
\* that can take its next step takes it, requests.post returns or raises,
\* and a body on which nothing more arrives ends or breaks.  Nothing is
\* required of the backend.
Fairness ==
    \A a \in Askers :
        /\ WF_vars(LlmPostFails(a) \/ LlmPostOk(a))
        /\ WF_vars(\E l \in Lines : LlmReadsLine(a, l))
        /\ WF_vars(LlmStreamEnds(a) \/ LlmStreamBreaks(a))
        /\ WF_vars(AskCount(a))
        /\ WF_vars(AskTotal(a))

LiveSpec == Init /\ [][LiveNext]_vars /\ Fairness

\* =================================================================== claims

\* The store as it was when it held n records: records are only appended
\* (C9), so it is a prefix of the store.
StoreAt(n) == SubSeq(INVOICES, 1, n)

Answered(a) == asks[a].pc = "idle" /\ asks[a].resp.status # 0

\* C1: no two records of the store that share the source file name have the
\* same invoice number.
C1_UniqueNumberPerFile ==
    \A i, j \in 1..Len(INVOICES) :
        (i # j /\ INVOICES[i].file_name = INVOICES[j].file_name)
            => INVOICES[i].invoice_no # INVOICES[j].invoice_no

\* The intents in their order, and what makes a trimmed, lower-cased question
\* match each.
Intents == <<"greeting", "help", "total_spend", "count", "top_vendor",
             "summary", "llm">>

IntentMatches(intent, text) ==
    CASE intent = "greeting"    -> text \in {<<"h", "i">>, <<"h", "e", "l", "l",
                                                        "o">>, <<"h",
                                                                    "e", "y">>}
      [] intent = "help"        -> \/ Contains(text, <<"w", "h", "a", "t",
                                                       " ", "e", "l", "s",
                                                       "e">>)
                                   \/ Contains(text, <<"w", "h", "a", "t",
                                                       " ", "c", "a", "n",
                                                       " ", "y", "o", "u",
                                                       " ", "d", "o">>)
                                   \/ Contains(text, <<"h", "e", "l", "p">>)
                                   \/ Contains(text, <<"c", "a", "p", "a",
                                                       "b", "i", "l", "i",
                                                       "t", "i", "e", "s">>)
                                   \/ Contains(text, <<"f", "e", "a", "t",
                                                       "u", "r", "e", "s">>)
      [] intent = "total_spend" -> \/ Contains(text, <<"t", "o", "t", "a",
                                                       "l", " ", "s", "p",
                                                       "e", "n", "d">>)
                                   \/ Contains(text, <<"t", "o", "t", "a",
                                                       "l", " ", "a", "m",
                                                       "o", "u", "n", "t">>)
      [] intent = "count"       -> \/ Contains(text, <<"n", "u", "m", "b",
                                                       "e", "r", " ", "o",
                                                       "f", " ", "i", "n",
                                                       "v", "o", "i", "c",
                                                       "e", "s">>)
                                   \/ Contains(text, <<"h", "o", "w", " ",
                                                       "m", "a", "n", "y",
                                                       " ", "i", "n", "v",
                                                       "o", "i", "c", "e",
                                                       "s">>)
      [] intent = "top_vendor"  -> Contains(text, <<"t", "o", "p", " ",
                                                    "v", "e", "n", "d",
                                                    "o", "r">>)
      [] intent = "summary"     -> \/ Contains(text, <<"i", "n", "v", "o",
                                                       "i", "c", "e", " ",
                                                       "s", "u", "m", "m",
                                                       "a", "r", "y">>)
                                   \/ /\ Contains(text, <<"d", "u", "e">>)
                                      /\ Contains(text, <<"w", "e", "e", "k">>)
      [] intent = "llm"         -> TRUE

FirstIntent(q) ==
    LET text == strip(lower(q))
    IN  Intents[SetMin({i \in 1..Len(Intents) : IntentMatches(Intents[i], text)})]

\* C2: a non-empty question is handled by the first intent, in the fixed
\* order, that it matches, and is answered with that intent's answer; a
\* question that contains a greeting without being one is not greeted.
C2_FirstMatchingIntentAnswers ==
    \A a \in Askers :
        asks[a].q # <<>> =>
            LET first == FirstIntent(asks[a].q)
                text  == strip(lower(asks[a].q))
            IN  /\ asks[a].branch = first
                /\ (Answered(a) /\ first # "llm") =>
                       asks[a].resp =
                           Answer(LocalAnswer(first, StoreAt(asks[a].started),
                                              asks[a].on))
                /\ (Answered(a) /\ first = "llm") =>
                       asks[a].resp.answer \notin {GreetingText, HelpText}
                /\ (Answered(a) /\ asks[a].resp.answer = GreetingText) =>
                       text \in {<<"h", "i">>, <<"h", "e", "l", "l", "o">>, <<"h", "e", "y">>}
                /\ (Answered(a) /\ Contains(text, <<"h", "e", "l", "p">>)
                        /\ Contains(text, <<"t", "o", "p", " ", "v", "e",
                                            "n", "d", "o", "r">>)) =>
                       asks[a].resp.answer = HelpText
                /\ (Answered(a) /\ Contains(text, <<"t", "o", "t", "a",
                                                    "l", " ", "s", "p",
                                                    "e", "n", "d">>)
                        /\ Contains(text, <<"t", "o", "p", " ", "v", "e",
                                            "n", "d", "o", "r">>)
                        /\ first # "help") =>
                       asks[a].resp.answer =
                           TotalSpendText(StoreAt(asks[a].started))

\* A question that matches two intents has been answered over a store that
\* is not empty, and a question that holds a greeting has not been greeted.
C2_Witness ==
    \E a \in Askers :
        /\ Answered(a)
        /\ asks[a].started > 0
        /\ Contains(strip(lower(asks[a].q)), <<"t", "o", "t", "a", "l",
                                               " ", "a", "m", "o", "u",
                                               "n", "t">>)
        /\ Contains(strip(lower(asks[a].q)), <<"t", "o", "p", " ", "v",
                                               "e", "n", "d", "o", "r">>)
        /\ asks[a].branch = "total_spend"

\* C3: a missing, empty or blank question gets the MissingQuestion error and
\* no answer; every other question gets an answer that is not empty.
C3_AnswerUnlessMissing ==
    \A a \in Askers :
        Answered(a) =>
            IF asks[a].q = <<>>
            THEN asks[a].resp = MissingQuestion
            ELSE asks[a].resp.status = 200 /\ asks[a].resp.answer # <<>>

\* The vendors of a store, the spend on one, and the place of its first
\* record.
VendorsOf(invs) == {invs[i].vendor : i \in 1..Len(invs)}

RECURSIVE SumTotals(_, _)
SumTotals(invs, S) ==
    IF S = {} THEN 0
    ELSE LET i == CHOOSE x \in S : TRUE
         IN  invs[i].total + SumTotals(invs, S \ {i})

SpendOn(v, invs) == SumTotals(invs, {i \in 1..Len(invs) : invs[i].vendor = v})
FirstOf(v, invs) == SetMin({i \in 1..Len(invs) : invs[i].vendor = v})

\* v has the largest spend, and of the vendors with that spend it is the one
\* that occurs first in the store.
IsTopVendor(v, invs) ==
    \A w \in VendorsOf(invs) :
        /\ SpendOn(w, invs) <= SpendOn(v, invs)
        /\ SpendOn(w, invs) = SpendOn(v, invs) => FirstOf(v, invs) <= FirstOf(w, invs)

\* C4: the top-vendor answer is "No invoices uploaded yet." exactly when the
\* store is empty; otherwise it names the vendor with the largest summed
\* total, the first in the store among those tied for it, and that sum.
C4_TopVendorAnswer ==
    \A a \in Askers :
        (Answered(a) /\ asks[a].branch = "top_vendor") =>
            LET invs == StoreAt(asks[a].started)
            IN  /\ asks[a].resp.status = 200
                /\ (asks[a].resp.answer = NoInvoicesText) <=> (invs = <<>>)
                /\ invs # <<>> =>
                       \E v \in VendorsOf(invs) :
                           /\ IsTopVendor(v, invs)
                           /\ asks[a].resp.answer =
                                  <<"T", "o", "p", " ", "v", "e", "n", "d",
                                    "o", "r", " ", "b", "y", " ", "s", "p",
                                    "e", "n", "d", " ", "i", "s", " ">> \o v
                                  \o <<" ", "w", "i", "t", "h", " ", "a",
                                       " ", "t", "o", "t", "a", "l", " ",
                                       "o", "f", " ", "$">>
                                  \o Fmt2f(SpendOn(v, invs)) \o <<".">>

\* The top vendor has been asked for over a store in which two vendors tie
\* for the largest spend and the one named is not the one whose single
\* record is the largest.
C4_Witness ==
    \E a \in Askers :
        /\ Answered(a) /\ asks[a].branch = "top_vendor"
        /\ LET invs == StoreAt(asks[a].started)
           IN  /\ Len(invs) = 3
               /\ \E v, w \in VendorsOf(invs) :
                      /\ v # w
                      /\ SpendOn(v, invs) = SpendOn(w, invs)
                      /\ IsTopVendor(v, invs)
                      /\ FirstOf(v, invs) = 1
                      /\ invs[2].vendor = w

\* Whether a record is due on or before the day `now` + 7.
DueSoon(inv, now) ==
    /\ IsIsoDate(inv.due_date)
    /\ fromisoformat(inv.due_date) <= now + 7

PairOf(inv) == <<inv.vendor, inv.invoice_no>>

\* The places of the records that are due soon and whose (vendor, invoice
\* number) pair no earlier record that is due soon has.
FirstDue(invs, now) ==
    {i \in 1..Len(invs) :
        /\ DueSoon(invs[i], now)
        /\ \A j \in 1..(i - 1) :
               DueSoon(invs[j], now) => PairOf(invs[j]) # PairOf(invs[i])}

RECURSIVE InOrder(_)
\* the elements of a set of numbers, ascending
InOrder(S) == IF S = {} THEN <<>>
              ELSE <<SetMin(S)>> \o InOrder(S \ {SetMin(S)})

\* C5: the summary answer lists the (vendor, invoice number) pairs of the
\* records due on or before today + 7 days, past-due ones included, each
\* pair once, in the order of first occurrence; when there is none it is the
\* "No invoices are due in the next 7 days." message.
C5_DueSummaryAnswer ==
    \A a \in Askers :
        (Answered(a) /\ asks[a].branch = "summary") =>
            LET invs  == StoreAt(asks[a].started)
                first == InOrder(FirstDue(invs, asks[a].on))
                lines == [n \in 1..Len(first) |-> SummaryLine(invs[first[n]])]
            IN  /\ asks[a].resp.status = 200
                /\ first = <<>> => asks[a].resp.answer = NothingDueText
                /\ first # <<>> =>
                       asks[a].resp.answer = SummaryHeader \o JoinLines(lines)

\* A summary has been given over a store with a record that is past due, a
\* record due in exactly 7 days and two records with the same pair, both
\* due soon.
C5_Witness ==
    \E a \in Askers :
        /\ Answered(a) /\ asks[a].branch = "summary"
        /\ LET invs == StoreAt(asks[a].started)
               now  == asks[a].on
           IN  /\ \E i \in 1..Len(invs) : fromisoformat(invs[i].due_date) < now
               /\ \E i \in 1..Len(invs) : fromisoformat(invs[i].due_date) = now + 7
               /\ \E i, j \in 1..Len(invs) :
                      /\ i < j
                      /\ DueSoon(invs[i], now) /\ DueSoon(invs[j], now)
                      /\ PairOf(invs[i]) = PairOf(invs[j])
               /\ Cardinality(FirstDue(invs, now)) = 2

\* C6: call_llm never raises to its caller; it returns "" when the request
\* failed or the collected text is empty, and otherwise the trimmed
\* concatenation of the chunks' `response` texts in arrival order.
C6_AdapterNeverRaises ==
    \A a \in Askers :
        /\ llm[a].outcome # "raised"
        /\ llm[a].outcome = "returned" =>
               llm[a].value =
                   strip(Concat([i \in 1..Len(llm[a].out) |-> llm[a].out[i].text]))

\* The last min(5, n) records of a store.
Recent(invs) ==
    SubSeq(invs, IF Len(invs) > 5 THEN Len(invs) - 4 ELSE 1, Len(invs))

\* C7: the prompt handed to the adapter is composed: next to the verbatim
\* question it holds a system framing and, for each of the most recent
\* min(5, n) records of the store, its vendor, invoice number, total with
\* currency and due date (a placeholder when the store is empty).
C7_PromptIsComposed ==
    \A a \in Askers :
        asks[a].pc \in {"post", "stream"} =>
            LET recent == Recent(StoreAt(asks[a].started))
            IN  /\ Contains(llm[a].prompt, asks[a].q)
                /\ Len(llm[a].prompt) > Len(asks[a].q)
                /\ \A i \in 1..Len(recent) :
                       /\ Contains(llm[a].prompt, recent[i].vendor)
                       /\ Contains(llm[a].prompt, recent[i].invoice_no)
                       /\ Contains(llm[a].prompt, recent[i].due_date)
                       /\ Contains(llm[a].prompt, recent[i].currency)

\* C8: an answer is computed over one state the store was in between the
\* arrival of the question and its answer; the count and the spend of the
\* fallback answer describe the same records.
C8_AnswerOverOneStoreState ==
    \A a \in Askers :
        (Answered(a) /\ asks[a].resp.status = 200) =>
            \/ /\ asks[a].branch = "llm"
               /\ llm[a].value # <<>>
               /\ asks[a].resp.answer = llm[a].value
            \/ \E n \in asks[a].started..asks[a].ended :
                   IF asks[a].branch = "llm"
                   THEN asks[a].resp.answer =
                            FallbackText(n, total_spent(StoreAt(n)))
                   ELSE asks[a].resp.answer =
                            LocalAnswer(asks[a].branch, StoreAt(n), asks[a].on)

\* The fields of a record are all filled in.
FullyBuilt(inv) ==
    /\ inv.file_name # <<>> /\ inv.vendor # <<>> /\ inv.invoice_no # <<>>
    /\ inv.currency # <<>> /\ IsIsoDate(inv.due_date) /\ inv.total > 0

\* C9: the store changes only by an upload that is answered ok, which
\* appends one fully built record and leaves the earlier records as they
\* are; its length is the number of such uploads; a rejected upload and
\* every step of a question leave it unchanged.
C9_StoreChangesOnlyByUpload ==
    [][/\ Len(INVOICES') = accepted'
       /\ Len(INVOICES') >= Len(INVOICES)
       /\ SubSeq(INVOICES', 1, Len(INVOICES)) = INVOICES
       /\ INVOICES' # INVOICES =>
              /\ Len(INVOICES') = Len(INVOICES) + 1
              /\ FullyBuilt(INVOICES'[Len(INVOICES')])
              /\ \E u \in Uploaders :
                     /\ uploads[u].pc = "append" /\ uploads'[u].resp = "ok"
                     /\ INVOICES'[Len(INVOICES')].file_name = uploads[u].fname
                     /\ INVOICES'[Len(INVOICES')].invoice_no = uploads[u].number
       /\ (asks' # asks \/ llm' # llm) => INVOICES' = INVOICES
       /\ \A u \in Uploaders :
              (uploads'[u] # uploads[u] /\ uploads'[u].resp # "ok")
                  => INVOICES' = INVOICES
      ]_vars

\* Two uploads have been accepted after a third was rejected, and a question
\* and a missing question have been answered since.
C9_Witness ==
    /\ accepted >= 2
    /\ Len(INVOICES) >= 2
    /\ \E u \in Uploaders : uploads[u].resp \in {"no_file", "no_name"}
    /\ \E a \in Askers : Answered(a) /\ asks[a].started >= 1

\* C10: every question eventually receives a response, whatever the backend
\* does: a request that is being handled is eventually answered.
C10_EveryQuestionAnswered ==
    \A a \in Askers : (asks[a].pc # "idle") ~> (asks[a].pc = "idle")

=============================================================================
